---- MODULE Spec2Model ----
(***************************************************************************)
(* Notebook preprocessing of the IDAES examples repository: one source     *)
(* notebook is copied into per-purpose notebooks (test, doc, exercise,     *)
(* solution, user) with some cells removed according to the cell tags and  *)
(* the notebook-level "idaes.skip" metadata.                               *)
(*                                                                         *)
(* The tag rules are those of README-developer.md, "Jupyter Notebook cell  *)
(* tags".  The bullet for the `solution` tag says the cell is removed "in  *)
(* the solution notebook"; the table of notebook types of the same file    *)
(* (exercise = "Tutorial exercises only", solution = "Tutorial ex. and     *)
(* solutions") and the committed *_exercise.ipynb notebooks (which hold    *)
(* `exercise` cells and no `solution` cell) show that the notebook meant   *)
(* there is the exercise notebook, and that is what is modelled.           *)
(***************************************************************************)
EXTENDS Integers, Sequences, FiniteSets, TLC

\* ---- bounds of the model ------------------------------------------------
\* longest source notebook, in cells
MaxCells == 2
\* last instant of the lifecycle clock
MaxClock == 5

\* ---- notebook types and cell tags ---------------------------------------
\* the derived notebook types (table of notebook types)
Kinds == {"test", "doc", "exercise", "solution", "user"}

\* file-name ending of each notebook type, ".ipynb" left off
Suffix(kind) ==
    CASE kind = "test"     -> "_test"
      [] kind = "exercise" -> "_exercise"
      [] kind = "solution" -> "_solution"
      [] kind = "doc"      -> "_doc"
      [] kind = "user"     -> "_usr"

\* the tags the preprocessing step understands
Vocabulary == {"testing", "exercise", "solution", "noauto", "auto"}
\* a tag it ignores (a Jupyterbook tag for hiding a cell)
InertTags == {"hide-cell"}
AllTags == Vocabulary \cup InertTags

\* testing handled as before the user notebooks were added
TestingRemovedFromNoUser == {"doc", "exercise", "solution"}

\* testing: "Remove this cell, except in the testing notebooks"
TestingRemovedFrom == {"doc", "exercise", "solution", "user"}

\* exercise cells taken out of the solution notebook as well
ExerciseRemovedFromDocSolution == {"doc", "solution"}

\* exercise: "keep this cell in both [exercise and solution].  Remove this
\* cell in the documentation notebook"
ExerciseRemovedFrom == {"doc"}

\* the bullet of the solution tag read to the letter
SolutionRemovedFromLiteral == {"solution"}

\* solution: removed in the exercise notebook, kept in the documentation
\* notebook (see the note at the head of the module)
SolutionRemovedFrom == {"exercise"}

\* noauto honoured for the testing notebooks alone
NoautoRemovedFromTestOnly == {"test"}

\* noauto: "The cell will be removed in testing and documentation notebooks"
NoautoRemovedFrom == {"test", "doc"}

\* auto handled as before the user notebooks were added
AutoRemovedFromNoUser == {"exercise", "solution"}

\* auto: "removed in all notebooks except testing and documentation"
AutoRemovedFrom == Kinds \ {"test", "doc"}

\* a Jupyterbook hiding tag taken for a removal from the documentation
TagRemovedFromHidden(tag) ==
    CASE tag = "testing"   -> TestingRemovedFrom
      [] tag = "exercise"  -> ExerciseRemovedFrom
      [] tag = "solution"  -> SolutionRemovedFrom
      [] tag = "noauto"    -> NoautoRemovedFrom
      [] tag = "auto"      -> AutoRemovedFrom
      [] tag = "hide-cell" -> {"doc"}
      [] OTHER             -> {}

\* the notebook types one tag removes a cell from; "All other tags ... will
\* be ignored"
TagRemovedFrom(tag) ==
    CASE tag = "testing"  -> TestingRemovedFrom
      [] tag = "exercise" -> ExerciseRemovedFrom
      [] tag = "solution" -> SolutionRemovedFrom
      [] tag = "noauto"   -> NoautoRemovedFrom
      [] tag = "auto"     -> AutoRemovedFrom
      [] OTHER            -> {}

\* a cell without tags left out of the testing notebook
RemovedFromUntagged(tags) ==
    IF tags = {} THEN {"test"} ELSE UNION {TagRemovedFrom(t) : t \in tags}

\* the notebook types a cell with these tags is removed from
RemovedFrom(tags) == UNION {TagRemovedFrom(t) : t \in tags}

\* the tags that mark a tutorial
TutorialTags == {"exercise", "solution"}

\* any understood tag taken for the mark of a tutorial
IsTutorialAnyTag(cells) ==
    \E i \in DOMAIN cells : cells[i].tags \cap Vocabulary # {}

\* "The presence of this tag means a notebook is a tutorial"
IsTutorial(cells) ==
    \E i \in DOMAIN cells : cells[i].tags \cap TutorialTags # {}

\* the kept cells collected by prepending, last cell first
RECURSIVE Reverse(_)
Reverse(s) == IF s = <<>> THEN <<>> ELSE Append(Reverse(Tail(s)), Head(s))
FilterCellsReversed(cells, kind) ==
    Reverse(SelectSeq(cells, LAMBDA c : kind \notin RemovedFrom(c.tags)))

\* a derived notebook: "a copy of the original with some cells removed"
FilterCells(cells, kind) ==
    SelectSeq(cells, LAMBDA c : kind \notin RemovedFrom(c.tags))

\* the skip list left unread
ProducedKindsNoSkip(cells, skipKinds) ==
    IF IsTutorial(cells) THEN Kinds ELSE Kinds \ {"exercise", "solution"}

\* the notebook types generated for a source: exercise and solution for a
\* tutorial only; none of the types listed in "idaes.skip"
ProducedKinds(cells, skipKinds) ==
    (IF IsTutorial(cells) THEN Kinds ELSE Kinds \ {"exercise", "solution"})
        \ skipKinds

\* derive(source_notebook, skip_kinds): notebook type -> derived cell list
Derive(cells, skipKinds) ==
    [k \in ProducedKinds(cells, skipKinds) |-> FilterCells(cells, k)]

\* ---- state --------------------------------------------------------------
VARIABLES
    cells,      \* the source notebook's cells, each [id, tags]
    skip,       \* the source notebook's metadata "idaes.skip"
    srcMtime,   \* modification time of the source notebook
    files,      \* notebook type -> derived file [exists, cells, mtime]
    out,        \* mapping returned by the last derivation
    log,        \* what the last run did: types written, removed, left alone
    pc,         \* "idle" at the start, "edited" after an edit of the
                \* source, "done" after a preprocessing run
    clock,      \* current time
    cb,         \* the cache-merge pass (find_cb) over the derived files
    batch       \* the run over the notebooks of the table of contents

vars == <<cells, skip, srcMtime, files, out, log, pc, clock, cb, batch>>

NoFile == [exists |-> FALSE, cells |-> <<>>, mtime |-> 0]
NoOutput == [k \in {} |-> <<>>]
NoLog == [written |-> {}, removed |-> {}, kept |-> {}]

\* no cache-merge pass started, no run over a table of contents started
NoPath == [dir |-> "", stem |-> <<>>]
NoCb == [i |-> 0, phase |-> "off", count |-> 0, cache |-> {}, path |-> NoPath,
         names |-> [k \in Kinds |-> <<>>], node |-> <<>>, open |-> {},
         merged |-> {}]
EndPos == [p |-> 0, c |-> 0, s |-> 0]
NoToc == [parts |-> <<>>]
NoBatch == [phase |-> "off", toc |-> NoToc, disk |-> <<>>, prior |-> "absent",
            pos |-> EndPos, found |-> <<>>, errors |-> <<>>,
            derived |-> <<>>, failed |-> FALSE, exit |-> 0]

\* the values of "idaes.skip" the model draws
SkipChoices == {{}, {"test"}, {"test", "exercise"}}

\* the cell list with tag sets f[1], ..., f[n]; cell i has id i
MakeCells(n, f) == [i \in 1..n |-> [id |-> i, tags |-> f[i]]]

\* ---- the preprocessing run ----------------------------------------------
\* an existing derived file never regenerated
OutOfDateMissingOnly(kind) == ~files[kind].exists

\* a derived file is regenerated when it is missing or older than its source
OutOfDate(kind) ==
    \/ ~files[kind].exists
    \/ files[kind].mtime < srcMtime

\* the notebook types whose file a run that derived d writes
Written(d) == {k \in DOMAIN d : OutOfDate(k)}

\* every derived file the run did not just write taken for a leftover
RemovedUnwritten(d) == {k \in Kinds : files[k].exists /\ k \notin Written(d)}

\* the notebook types whose file the run removes: the types of the skip
\* list that have a file from an earlier run
Removed(d) == {k \in Kinds \ DOMAIN d : k \in skip /\ files[k].exists}

\* the file of one notebook type after a run that derived d at time now
FileAfter(kind, d, now) ==
    IF kind \in Written(d)
    THEN [exists |-> TRUE, cells |-> d[kind], mtime |-> now]
    ELSE IF kind \in Removed(d)
         THEN NoFile
         ELSE files[kind]

\* one preprocessing run over the source notebook
Preprocess ==
    /\ clock < MaxClock
    /\ LET d == Derive(cells, skip)
           now == clock + 1
       IN /\ out' = d
          /\ files' = [k \in Kinds |-> FileAfter(k, d, now)]
          /\ log' = [written |-> Written(d), removed |-> Removed(d),
                     kept |-> Kinds \ (Written(d) \cup Removed(d))]
          /\ clock' = now
    /\ pc' = "done"
    /\ UNCHANGED <<cells, skip, srcMtime, cb, batch>>

\* ---- derivation of any one source notebook ------------------------------
\* a freshly authored source notebook with any tags, not yet preprocessed
InitDerive ==
    /\ \E n \in 0..MaxCells : \E f \in [1..n -> SUBSET AllTags] :
          cells = MakeCells(n, f)
    /\ skip \in SkipChoices
    /\ srcMtime = 1
    /\ files = [k \in Kinds |-> NoFile]
    /\ out = NoOutput
    /\ log = NoLog
    /\ pc = "idle"
    /\ clock = 1
    /\ cb = NoCb
    /\ batch = NoBatch

\* the first preprocessing run on it
FirstRun ==
    /\ pc = "idle"
    /\ Preprocess

SpecDerive == InitDerive /\ [][FirstRun]_vars

\* ---- life of one source notebook: edits and preprocessing runs ----------
\* tag sets of the cells the life starts from
StartTagSets == {{}, {"testing"}, {"noauto"}, {"exercise"}}
\* tags the author toggles
EditTags == {"exercise", "testing"}

Init ==
    /\ \E n \in 0..MaxCells : \E f \in [1..n -> StartTagSets] :
          cells = MakeCells(n, f)
    /\ skip \in SkipChoices
    /\ srcMtime = 1
    /\ files = [k \in Kinds |-> NoFile]
    /\ out = NoOutput
    /\ log = NoLog
    /\ pc = "idle"
    /\ clock = 1
    /\ cb = NoCb
    /\ batch = NoBatch

\* the author adds a tag to a cell, or takes it off, and saves the notebook
Retag(i, t) ==
    /\ clock < MaxClock
    /\ i \in DOMAIN cells
    /\ cells' = [cells EXCEPT ![i].tags =
                    IF t \in @ THEN @ \ {t} ELSE @ \cup {t}]
    /\ srcMtime' = clock + 1
    /\ clock' = clock + 1
    /\ pc' = "edited"
    /\ UNCHANGED <<skip, files, out, log, cb, batch>>

\* the author edits the notebook metadata "idaes.skip" and saves
SetSkip(s) ==
    /\ clock < MaxClock
    /\ s # skip
    /\ skip' = s
    /\ srcMtime' = clock + 1
    /\ clock' = clock + 1
    /\ pc' = "edited"
    /\ UNCHANGED <<cells, files, out, log, cb, batch>>

Next ==
    \/ Preprocess
    \/ \E i \in 1..MaxCells, t \in EditTags : Retag(i, t)
    \/ \E s \in SkipChoices : SetSkip(s)

Spec == Init /\ [][Next]_vars

\* ---- life of the four-cell example notebook ------------------------------
\* cells tagged [], [testing], [noauto], [exercise], in that order
Fixture == MakeCells(4, <<{}, {"testing"}, {"noauto"}, {"exercise"}>>)

InitFixture ==
    /\ cells = Fixture
    /\ skip \in SkipChoices
    /\ srcMtime = 1
    /\ files = [k \in Kinds |-> NoFile]
    /\ out = NoOutput
    /\ log = NoLog
    /\ pc = "idle"
    /\ clock = 1
    /\ cb = NoCb
    /\ batch = NoBatch

SpecFixture == InitFixture /\ [][Next]_vars

\* ---- the cache-merge pass over the derived notebooks of one source -------
\* file names are sequences of one-character strings
RECURSIVE Join(_)
Join(s) == IF s = <<>> THEN "" ELSE Head(s) \o Join(Tail(s))

\* the paths of source notebooks the pass is called with
SourceDirs == {"ex", "dae"}
SourceStems == {<<"n", "b", "_", "s", "r", "c">>,
                <<"d", "o", "c", "_", "s", "r", "c">>}

\* Ext.DOC.value, ..., Ext.USER.value, and the order the loop takes them in
ExtValue(kind) ==
    CASE kind = "doc" -> <<"d", "o", "c">>
      [] kind = "test" -> <<"t", "e", "s", "t">>
      [] kind = "exercise" -> <<"e", "x", "e", "r", "c", "i", "s", "e">>
      [] kind = "solution" -> <<"s", "o", "l", "u", "t", "i", "o", "n">>
      [] kind = "user" -> <<"u", "s", "r">>
\* the loop taken over the test notebook alone
ExtOrderTestOnly == <<"test">>

ExtOrder == <<"doc", "test", "exercise", "solution", "user">>

\* the underscore before the extension cut off with "src"
ChangeSuffixCutFour(path, kind) ==
    [dir |-> path.dir,
     name |-> SubSeq(path.stem, 1, Len(path.stem) - 4) \o ExtValue(kind)
                  \o <<".ipynb">>]

\* the file name without path.parent
ChangeSuffixNoParent(path, kind) ==
    [dir |-> "",
     name |-> SubSeq(path.stem, 1, Len(path.stem) - 3) \o ExtValue(kind)
                  \o <<".ipynb">>]

\* name_base = path.stem[:-3]; path.parent / (name_base + ext + ".ipynb")
ChangeSuffix(path, kind) ==
    [dir |-> path.dir,
     name |-> SubSeq(path.stem, 1, Len(path.stem) - 3) \o ExtValue(kind)
                  \o <<".ipynb">>]

\* the notebook types whose derived file, as preprocessing names it
\* (example_src.ipynb -> example_doc.ipynb), is the file at path p
KindsAt(src, p) ==
    {k \in Kinds :
        /\ p.dir = src.dir
        /\ Join(p.name) =
               Join(SubSeq(src.stem, 1, Len(src.stem) - 4)) \o Suffix(k)
                   \o ".ipynb"}

\* the pass starts on the source notebook at path p with a cache that has
\* a matching record for the notebooks of the types c
CbStart(p, c) ==
    /\ pc = "done"
    /\ cb.phase = "off"
    /\ clock < MaxClock
    /\ cb' = [NoCb EXCEPT !.i = 1, !.phase = "read", !.cache = c, !.path = p]
    /\ clock' = clock + 1
    /\ UNCHANGED <<cells, skip, srcMtime, files, out, log, pc, batch>>

\* the state of the loop after the iteration i
CbAfter(c) ==
    [c EXCEPT !.i = @ + 1,
              !.phase = IF c.i = Len(ExtOrder) THEN "done" ELSE "read",
              !.node = <<>>, !.open = {}]

\* a notebook without a cache record taken as merged: no KeyError
CbReadNoKeyError ==
    /\ cb.phase = "read"
    /\ LET kind == ExtOrder[cb.i]
           p == ChangeSuffix(cb.path, kind)
           at == KindsAt(cb.path, p)
           named == [cb EXCEPT !.names[kind] = <<p>>]
       IN IF \A k \in at : ~files[k].exists
          THEN cb' = CbAfter(named)
          ELSE \E k \in at :
                  cb' = [named EXCEPT !.phase = "open",
                                      !.node = files[k].cells,
                                      !.open = {}]
    /\ UNCHANGED <<cells, skip, srcMtime, files, out, log, pc, clock, batch>>

\* nbf.read(_change_suffix, 4); cache.merge_match_into_notebook(node)
CbRead ==
    /\ cb.phase = "read"
    /\ LET kind == ExtOrder[cb.i]
           p == ChangeSuffix(cb.path, kind)
           at == KindsAt(cb.path, p)
           named == [cb EXCEPT !.names[kind] = <<p>>]
       IN IF \A k \in at : ~files[k].exists
          THEN cb' = CbAfter(named)                 \* FileNotFoundError
          ELSE IF at \cap cb.cache = {}
               THEN cb' = CbAfter(named)            \* KeyError
               ELSE \E k \in at :
                       cb' = [named EXCEPT !.phase = "open",
                                           !.node = files[k].cells,
                                           !.open = {}]
    /\ UNCHANGED <<cells, skip, srcMtime, files, out, log, pc, clock, batch>>

\* open(_change_suffix, "w"): the file is cut to nothing
CbOpen ==
    /\ cb.phase = "open"
    /\ LET kind == ExtOrder[cb.i]
       IN /\ files' = [files EXCEPT ![kind] =
                          [exists |-> TRUE, cells |-> <<>>, mtime |-> clock]]
          /\ cb' = [cb EXCEPT !.phase = "write", !.open = {kind}]
    /\ UNCHANGED <<cells, skip, srcMtime, out, log, pc, clock, batch>>

\* nbf.write(merged_nb, f), the file closed; count += 1
CbWrite ==
    /\ cb.phase = "write"
    /\ LET kind == ExtOrder[cb.i]
       IN /\ files' = [files EXCEPT ![kind] =
                          [exists |-> TRUE, cells |-> cb.node, mtime |-> clock]]
          /\ cb' = CbAfter([cb EXCEPT !.count = @ + 1,
                                      !.merged = @ \cup {kind}])
    /\ UNCHANGED <<cells, skip, srcMtime, out, log, pc, clock, batch>>

\* the process dies in the pass; a file open for writing keeps what had
\* been written of it, any part short of the whole
CbCrash ==
    /\ cb.phase \in {"read", "open", "write"}
    /\ cb' = [cb EXCEPT !.phase = "crashed"]
    /\ IF cb.phase = "write"
       THEN \E n \in 0..Len(cb.node) :
               /\ n < Len(cb.node) \/ n = 0
               /\ files' = [files EXCEPT ![ExtOrder[cb.i]].cells =
                                SubSeq(cb.node, 1, n)]
       ELSE files' = files
    /\ UNCHANGED <<cells, skip, srcMtime, out, log, pc, clock, batch>>

NextCache ==
    \/ FirstRun
    \/ \E p \in [dir : SourceDirs, stem : SourceStems], c \in SUBSET Kinds :
          CbStart(p, c)
    \/ CbRead
    \/ CbOpen
    \/ CbWrite
    \/ CbCrash

SpecCache == Init /\ [][NextCache]_vars

\* ---- a preprocessing run after a cache-merge pass ------------------------
\* preprocessing is run again, the source unchanged, after the pass
\* returned or died
Rerun ==
    /\ pc = "done"
    /\ cb.phase \in {"done", "crashed"}
    /\ Preprocess

NextResume ==
    \/ NextCache
    \/ Rerun

SpecResume == Init /\ [][NextResume]_vars

\* ---- the run over the notebooks of a table of contents ------------------
\* a file reference is its text cut in pieces: "ex/nb_doc" is
\* <<"ex", "/", "nb", "_doc">>
TocTags ==
    [parts |-> <<
        [caption |-> "Testing",
         chapters |-> <<
            [file |-> <<"ex", "/", "index">>,
             sections |-> << [file |-> <<"ex", "/", "nb", "_doc">>] >>] >>] >>]
TocFlowsheets ==
    [parts |-> <<
        [caption |-> "Flowsheets",
         chapters |-> <<
            [file |-> <<"dae", "/", "index">>,
             sections |-> << [file |-> <<"dae", "/", "chem", "_doc">>],
                             [file |-> <<"dae", "/", "pid", "_doc">>] >>],
            [file |-> <<"pecos", "/", "dqc", "_doc">>] >>] >>]
TocTwoParts ==
    [parts |-> <<
        [caption |-> "Tools",
         chapters |-> << [file |-> <<"tools", "/", "dmf", "_doc">>] >>],
        [caption |-> "Properties",
         chapters |-> <<
            [file |-> <<"properties", "/", "custom", "/", "index">>,
             sections |-> <<
                [file |-> <<"properties", "/", "custom", "/", "txy",
                            "_doc">>] >>] >>] >>]
\* a chapter without the file key, between two chapters that have it
TocChapterNoFile ==
    [parts |-> <<
        [caption |-> "Flowsheets",
         chapters |-> <<
            [file |-> <<"dae", "/", "chem", "_doc">>],
            [sections |-> << [file |-> <<"dae", "/", "pid", "_doc">>] >>],
            [file |-> <<"pecos", "/", "dqc", "_doc">>] >>] >>]
\* a section without the file key
TocSectionNoFile ==
    [parts |-> <<
        [caption |-> "Flowsheets",
         chapters |-> <<
            [file |-> <<"dae", "/", "index">>,
             sections |-> << [file |-> <<"dae", "/", "chem", "_doc">>],
                             [title |-> "pid"] >>],
            [file |-> <<"pecos", "/", "dqc", "_doc">>] >>] >>]
TocChoices ==
    {TocTags, TocFlowsheets, TocTwoParts, TocChapterNoFile, TocSectionNoFile}

\* what is at the place of a source notebook: nothing, a notebook whose
\* cells are not a list, a notebook, a tutorial notebook
SourceStates == {"missing", "malformed", "plain", "tutorial"}
SourceCells(state) ==
    IF state = "tutorial" THEN MakeCells(1, <<{"exercise"}>>)
    ELSE MakeCells(1, <<{}>>)

\* the filesystem root the references are relative to
Root == "/notebooks"

Chapters(toc, p) == toc.parts[p].chapters
Sections(ch) == IF "sections" \in DOMAIN ch THEN ch.sections ELSE <<>>

\* the node at a position: the chapter itself (s = 0) or its section s
NodeAt(toc, pos) ==
    IF pos.s = 0 THEN Chapters(toc, pos.p)[pos.c]
    ELSE Sections(Chapters(toc, pos.p)[pos.c])[pos.s]

\* the first chapter of the first part from p on that has chapters
RECURSIVE FirstChapterFrom(_, _)
FirstChapterFrom(toc, p) ==
    IF p > Len(toc.parts) THEN EndPos
    ELSE IF Len(Chapters(toc, p)) > 0 THEN [p |-> p, c |-> 1, s |-> 0]
    ELSE FirstChapterFrom(toc, p + 1)

\* a chapter followed by the next chapter, its sections passed over
NextPosSkipSections(toc, pos) ==
    IF pos.c < Len(Chapters(toc, pos.p))
    THEN [p |-> pos.p, c |-> pos.c + 1, s |-> 0]
    ELSE FirstChapterFrom(toc, pos.p + 1)

\* the position visited after pos: the chapter's next section, else the
\* next chapter of the part, else the first chapter of the next part
NextPos(toc, pos) ==
    IF pos.s < Len(Sections(Chapters(toc, pos.p)[pos.c]))
    THEN [pos EXCEPT !.s = @ + 1]
    ELSE IF pos.c < Len(Chapters(toc, pos.p))
         THEN [p |-> pos.p, c |-> pos.c + 1, s |-> 0]
         ELSE FirstChapterFrom(toc, pos.p + 1)

\* index of the last "/" of a reference, 0 if it has none
RECURSIVE LastSlash(_, _)
LastSlash(ref, n) ==
    IF n = 0 THEN 0
    ELSE IF ref[n] = "/" THEN n
    ELSE LastSlash(ref, n - 1)

\* the (directory, base name) pair of a reference: the directory under the
\* root, the name with the doc suffix taken off
ParseRef(ref) ==
    LET cut == LastSlash(ref, Len(ref))
        name == SubSeq(ref, cut + 1, Len(ref))
    IN [dir |-> <<Root>> \o SubSeq(ref, 1, cut - 1),
        base |-> IF name # <<>> /\ name[Len(name)] = "_doc"
                 THEN SubSeq(name, 1, Len(name) - 1)
                 ELSE name]

\* the positions of the nodes of a table of contents
Positions(toc) ==
    UNION {UNION {{[p |-> p, c |-> c, s |-> s] :
                      s \in 0..Len(Sections(Chapters(toc, p)[c]))} :
                  c \in 1..Len(Chapters(toc, p))} :
           p \in 1..Len(toc.parts)}

\* the notebooks a table of contents refers to
PairsOf(toc) ==
    {ParseRef(NodeAt(toc, pos).file) :
        pos \in {q \in Positions(toc) : "file" \in DOMAIN NodeAt(toc, q)}}

\* the notebook the run is at
Here(b) == ParseRef(NodeAt(b.toc, b.pos).file)

\* the run yields the pair of the reference it is at
Discovered(b) == [b EXCEPT !.found = Append(@, Here(b))]

\* the run goes on to the next node
Advance(b) == [b EXCEPT !.pos = NextPos(b.toc, b.pos)]

\* a node without the file key passed over, the run going on
AfterStructureErrorGoesOn(b) ==
    Advance([b EXCEPT !.errors = Append(@, [kind |-> "StructureError",
                                            at |-> b.pos]),
                      !.failed = TRUE])

\* a node without the file key: StructureError naming the node, the
\* discovery and the run end there
AfterStructureError(b) ==
    [b EXCEPT !.errors = Append(@, [kind |-> "StructureError", at |-> b.pos]),
              !.failed = TRUE, !.phase = "halted", !.exit = 1]

\* a missing source taken for a failure of the run
AfterNotFoundFails(b) ==
    Advance([b EXCEPT !.errors = Append(@, [kind |-> "NotFoundError",
                                            at |-> Here(b)]),
                      !.failed = TRUE])

\* no source notebook at the place: NotFoundError reported, the run goes on
AfterNotFound(b) ==
    Advance([b EXCEPT !.errors = Append(@, [kind |-> "NotFoundError",
                                            at |-> Here(b)])])

\* the run ended at the first notebook that is not well formed
AfterFormatErrorHalts(b) ==
    [b EXCEPT !.errors = Append(@, [kind |-> "FormatError", at |-> Here(b)]),
              !.failed = TRUE, !.phase = "halted", !.exit = 1]

\* the cells of the source are not a list: FormatError, none of its
\* derived files written, the run goes on
AfterFormatError(b) ==
    Advance([b EXCEPT !.errors = Append(@, [kind |-> "FormatError",
                                            at |-> Here(b)]),
                      !.failed = TRUE])

\* the source is derived and the files of the notebook types it produces
\* are written
AfterDerive(b) ==
    Advance([b EXCEPT !.derived[Here(b)] =
                [k \in Kinds |->
                    IF k \in ProducedKinds(SourceCells(b.disk[Here(b)]), {})
                    THEN "new" ELSE @[k]]])

\* any reported error taken for a failure
ExitCodeAnyError(b) == IF b.errors # <<>> THEN 1 ELSE 0

\* the exit status of a run that reached the end
ExitCode(b) == IF b.failed THEN 1 ELSE 0

InitBatch ==
    /\ cells = <<>> /\ skip = {} /\ srcMtime = 1
    /\ files = [k \in Kinds |-> NoFile]
    /\ out = NoOutput /\ log = NoLog /\ pc = "idle" /\ clock = 1
    /\ cb = NoCb
    /\ \E t \in TocChoices, pr \in {"absent", "old"} :
          \E d \in [PairsOf(t) -> SourceStates] :
             batch = [NoBatch EXCEPT
                         !.phase = "run", !.toc = t, !.disk = d, !.prior = pr,
                         !.pos = FirstChapterFrom(t, 1),
                         !.derived = [x \in PairsOf(t) |->
                                         [k \in Kinds |-> pr]]]

\* the run is at a node
AtNode == batch.phase = "run" /\ batch.pos # EndPos
OtherThanBatch == <<cells, skip, srcMtime, files, out, log, pc, clock, cb>>

VisitNoFile ==
    /\ AtNode
    /\ "file" \notin DOMAIN NodeAt(batch.toc, batch.pos)
    /\ batch' = AfterStructureError(batch)
    /\ UNCHANGED OtherThanBatch

VisitMissing ==
    /\ AtNode
    /\ "file" \in DOMAIN NodeAt(batch.toc, batch.pos)
    /\ batch.disk[Here(batch)] = "missing"
    /\ batch' = AfterNotFound(Discovered(batch))
    /\ UNCHANGED OtherThanBatch

VisitMalformed ==
    /\ AtNode
    /\ "file" \in DOMAIN NodeAt(batch.toc, batch.pos)
    /\ batch.disk[Here(batch)] = "malformed"
    /\ batch' = AfterFormatError(Discovered(batch))
    /\ UNCHANGED OtherThanBatch

VisitNotebook ==
    /\ AtNode
    /\ "file" \in DOMAIN NodeAt(batch.toc, batch.pos)
    /\ batch.disk[Here(batch)] \in {"plain", "tutorial"}
    /\ batch' = AfterDerive(Discovered(batch))
    /\ UNCHANGED OtherThanBatch

\* the run reaches the end of the table of contents
Finish ==
    /\ batch.phase = "run"
    /\ batch.pos = EndPos
    /\ batch' = [batch EXCEPT !.phase = "done", !.exit = ExitCode(batch)]
    /\ UNCHANGED OtherThanBatch

NextBatch ==
    \/ VisitNoFile
    \/ VisitMissing
    \/ VisitMalformed
    \/ VisitNotebook
    \/ Finish

SpecBatch == InitBatch /\ [][NextBatch]_vars

\* ---- properties ---------------------------------------------------------
\* d is an order-preserving subsequence of s
RECURSIVE IsSubseq(_, _)
IsSubseq(d, s) ==
    IF d = <<>> THEN TRUE
    ELSE IF s = <<>> THEN FALSE
    ELSE IF Head(d) = Head(s) THEN IsSubseq(Tail(d), Tail(s))
    ELSE IsSubseq(d, Tail(s))

\* the last run produced notebook type k
Produced(k) == k \in DOMAIN out
\* source cell i is in the derived notebook of type k of the last run
Present(k, i) == Produced(k) /\ \E j \in DOMAIN out[k] : out[k][j] = cells[i]
\* source cell i carries tag t
Tagged(i, t) == t \in cells[i].tags
\* t is the one tag of the vocabulary that source cell i carries
OnlyTag(i, t) == cells[i].tags \cap Vocabulary = {t}
\* source cell i carries none of the tags ts
Without(i, ts) == cells[i].tags \cap ts = {}
\* the source has a cell tagged exercise or solution
HasTutorialTag ==
    \E i \in DOMAIN cells : cells[i].tags \cap {"exercise", "solution"} # {}

\* C1: every derived notebook, as returned by the derivation and as written
\* to its file, is an order-preserving subsequence of the source's cells:
\* cells are only deleted, never inserted, duplicated, reordered or edited.
C1_Subsequence ==
    pc = "done" =>
        /\ \A k \in DOMAIN out : IsSubseq(out[k], cells)
        /\ \A k \in Kinds : files[k].exists => IsSubseq(files[k].cells, cells)

\* a tutorial with all five notebooks, one of which lost the first cell
\* and kept the second, and another of which kept both
C1_Witness ==
    /\ pc = "done"
    /\ DOMAIN out = Kinds
    /\ Len(cells) = 2
    /\ \E k \in Kinds : out[k] = <<cells[2]>> /\ files[k].cells = <<cells[2]>>
    /\ \E k \in Kinds : out[k] = cells

\* C2 as stated: a cell tagged testing, whatever its other tags, is in the
\* test notebook and in none of the doc, exercise, solution, user notebooks.
C2_TestingWhateverOtherTags ==
    pc = "done" =>
        \A i \in DOMAIN cells : Tagged(i, "testing") =>
            /\ Produced("test") => Present("test", i)
            /\ \A k \in {"doc", "exercise", "solution", "user"} :
                   ~Present(k, i)

\* C2 amended: a cell tagged testing is in none of the doc, exercise,
\* solution, user notebooks; it is in the test notebook when testing is its
\* only vocabulary tag, and it is not in the test notebook when it is also
\* tagged noauto.
C2_TestingUnlessNoauto ==
    pc = "done" =>
        \A i \in DOMAIN cells : Tagged(i, "testing") =>
            /\ \A k \in {"doc", "exercise", "solution", "user"} :
                   ~Present(k, i)
            /\ Tagged(i, "noauto") => ~Present("test", i)
            /\ OnlyTag(i, "testing") /\ Produced("test") =>
                   Present("test", i)

\* a tutorial with all five notebooks: one testing cell kept in the test
\* notebook, one testing+noauto cell removed from it
C2_Witness ==
    /\ pc = "done"
    /\ DOMAIN out = Kinds
    /\ \E i, j \in DOMAIN cells :
          /\ Tagged(i, "testing") /\ ~Tagged(i, "noauto")
          /\ Present("test", i)
          /\ Tagged(j, "testing") /\ Tagged(j, "noauto")
          /\ ~Present("test", j)

\* C3 as stated: a cell tagged noauto is removed from the test, doc and
\* user notebooks and retained in the exercise and solution notebooks.
C3_NoautoRemovedFromUser ==
    pc = "done" =>
        \A i \in DOMAIN cells : Tagged(i, "noauto") =>
            /\ \A k \in {"test", "doc", "user"} : ~Present(k, i)
            /\ \A k \in {"exercise", "solution"} :
                   Produced(k) => Present(k, i)

\* C3 amended: a cell tagged noauto is removed from the test and doc
\* notebooks; the noauto tag does not remove it from the user notebook: a
\* cell whose only vocabulary tag is noauto is retained in the user
\* notebook and in the exercise and solution notebooks.
C3_NoautoRemovedFromTestDoc ==
    pc = "done" =>
        \A i \in DOMAIN cells : Tagged(i, "noauto") =>
            /\ \A k \in {"test", "doc"} : ~Present(k, i)
            /\ OnlyTag(i, "noauto") =>
                   \A k \in {"user", "exercise", "solution"} :
                       Produced(k) => Present(k, i)

\* a tutorial with all five notebooks and a cell tagged noauto alone:
\* removed from test and doc, kept in user, exercise and solution
C3_Witness ==
    /\ pc = "done"
    /\ DOMAIN out = Kinds
    /\ \E i \in DOMAIN cells :
          /\ OnlyTag(i, "noauto")
          /\ ~Present("test", i) /\ ~Present("doc", i)
          /\ Present("user", i)
          /\ Present("exercise", i) /\ Present("solution", i)

\* C4: a cell tagged auto is retained in no notebook other than test and
\* doc: it is removed from the exercise, solution and user notebooks.
C4_AutoOnlyTestDoc ==
    pc = "done" =>
        \A i \in DOMAIN cells : Tagged(i, "auto") =>
            \A k \in Kinds : Present(k, i) => k \in {"test", "doc"}

\* a tutorial with all five notebooks and an auto cell kept in test and doc
C4_Witness ==
    /\ pc = "done"
    /\ DOMAIN out = Kinds
    /\ \E i \in DOMAIN cells :
          /\ Tagged(i, "auto")
          /\ Present("test", i) /\ Present("doc", i)
          /\ ~Present("user", i)

C7_UntaggedRetained ==
    pc = "done" =>
        \A i \in DOMAIN cells : cells[i].tags = {} =>
            \A k \in DOMAIN out : Present(k, i)

\* a tutorial with all five notebooks: the untagged cell is in all of
\* them, next to a tagged cell that is not
C7_Witness ==
    /\ pc = "done"
    /\ DOMAIN out = Kinds
    /\ \E i, j \in DOMAIN cells :
          /\ cells[i].tags = {}
          /\ \A k \in Kinds : Present(k, i)
          /\ \E k \in Kinds : ~Present(k, j)

\* source cell i with tag t put on if it is absent, taken off if present
Toggled(i, t) ==
    [cells EXCEPT ![i].tags = IF t \in @ THEN @ \ {t} ELSE @ \cup {t}]
\* the ids of the cells of a derived notebook
Ids(d) == {d[j].id : j \in DOMAIN d}

\* C8: a tag outside the vocabulary never affects derivation: the source
\* that differs from the current one in such a tag on one cell gets the
\* same notebook types with the same cells retained, and every retained
\* cell carries exactly the tags of its source cell.
C8_InertTags ==
    pc = "done" =>
        /\ \A k \in DOMAIN out : \A j \in DOMAIN out[k] :
               out[k][j].tags = cells[out[k][j].id].tags
        /\ \A i \in DOMAIN cells : \A t \in AllTags \ Vocabulary :
               LET cells2 == Toggled(i, t)
                   d2 == Derive(cells2, skip)
               IN /\ DOMAIN d2 = DOMAIN out
                  /\ \A k \in DOMAIN d2 :
                        /\ Ids(d2[k]) = Ids(out[k])
                        /\ \A j \in DOMAIN d2[k] :
                               d2[k][j].tags = cells2[d2[k][j].id].tags

\* a cell with a tag outside the vocabulary kept in the doc notebook with
\* that tag, next to one removed from the doc notebook
C8_Witness ==
    /\ pc = "done"
    /\ Produced("doc")
    /\ \E i, j \in DOMAIN cells :
          /\ cells[i].tags = {"hide-cell"}
          /\ \E n \in DOMAIN out["doc"] : out["doc"][n] = cells[i]
          /\ Tagged(j, "hide-cell")
          /\ ~Present("doc", j)

\* C9: when no cell of the source carries the exercise or solution tag,
\* the run produces no exercise and no solution notebook: neither is
\* returned by the derivation nor written to a file.
C9_TutorialOnly ==
    pc = "done" /\ ~HasTutorialTag =>
        \A k \in {"exercise", "solution"} :
            /\ ~Produced(k)
            /\ k \notin log.written
            /\ ~files[k].exists

\* a tagged notebook without a tutorial tag and with nothing skipped: test,
\* doc and user notebooks written, exercise and solution not
C9_Witness ==
    /\ pc = "done"
    /\ ~HasTutorialTag
    /\ skip = {}
    /\ \E i \in DOMAIN cells : cells[i].tags \cap Vocabulary # {}
    /\ log.written = {"test", "doc", "user"}
    /\ ~files["exercise"].exists /\ ~files["solution"].exists

\* C10: when "idaes.skip" lists test, the derivation returns no test entry
\* and after the run no test file exists: none is written, and one left by
\* an earlier run is removed.
C10_SkipTest ==
    pc = "done" /\ "test" \in skip =>
        /\ ~Produced("test")
        /\ "test" \notin log.written
        /\ ~files["test"].exists

\* a run that found test in the skip list and removed the test file an
\* earlier run had written
C10_Witness ==
    /\ pc = "done"
    /\ "test" \in skip
    /\ "test" \in log.removed
    /\ ~files["test"].exists
    /\ files["doc"].exists

\* a step of the model that is a preprocessing run
RunStep == pc' = "done" /\ cb' = cb /\ batch' = batch

\* C11: a preprocessing run that follows a run, the source unchanged in
\* between, leaves the content of every derived file and the set of derived
\* files as they were.
C11_Idempotent ==
    [][pc = "done" /\ RunStep =>
           \A k \in Kinds :
               /\ files'[k].exists = files[k].exists
               /\ files'[k].cells = files[k].cells]_vars

\* a second run over an unchanged source that has derived files with
\* cells: nothing written, nothing removed
C11_Witness ==
    /\ pc = "done"
    /\ log.written = {} /\ log.removed = {}
    /\ \E k \in Kinds : files[k].exists /\ Len(files[k].cells) > 0
    /\ \E k \in Kinds : files[k].exists /\ Len(files[k].cells) < Len(cells)

\* C12: in a preprocessing run, the file of a notebook type the source
\* produces is overwritten from the current source when it is missing or
\* older than the source, and is left untouched when it is newer.
C12_RegenerateWhenOlder ==
    [][RunStep =>
           \A k \in DOMAIN out' :
               /\ ~files[k].exists \/ files[k].mtime < srcMtime =>
                      files'[k] = [exists |-> TRUE,
                                   cells |-> Derive(cells, skip)[k],
                                   mtime |-> clock']
               /\ files[k].exists /\ files[k].mtime > srcMtime =>
                      files'[k] = files[k]]_vars

\* a run, an edit of the source, a run that regenerated the doc file, then
\* a run that left it alone: the doc file is newer than the source, and a
\* file of the run before the edit is still there
C12_Witness ==
    /\ pc = "done"
    /\ "doc" \in log.kept
    /\ files["doc"].exists /\ files["doc"].mtime > srcMtime
    /\ \E k \in Kinds : files[k].exists /\ files[k].mtime < srcMtime

\* the per-variant drop table of the design document, row by row: TRUE when
\* the row of notebook type k drops a cell with tags ts
TableDrops(k, ts) ==
    CASE k = "test" ->
             \/ "noauto" \in ts
             \/ ~(ts \cap Vocabulary = {} \/ "auto" \in ts \/ "testing" \in ts)
      [] k = "doc" ->
             \/ "testing" \in ts
             \/ "noauto" \in ts
             \/ ("exercise" \in ts /\ "solution" \notin ts)
      [] k = "exercise" -> "solution" \in ts
      [] k = "solution" -> FALSE
      [] k = "user" -> "testing" \in ts \/ "auto" \in ts

\* the cells of s the table leaves in the notebook of type k
TableFilter(s, k) == SelectSeq(s, LAMBDA c : ~TableDrops(k, c.tags))

\* the example notebook, unedited, has just been preprocessed
FixtureDone == pc = "done" /\ cells = Fixture

C13_AllOrNothing ==
    \A k \in Kinds :
        files[k].exists => k \notin cb.open /\ files[k].cells = out[k]

\* the path find_cb computed for the notebook type k, once it has
VisitedPath(k) == cb.names[k][1]

Before(q, r) ==
    \/ q.p < r.p
    \/ q.p = r.p /\ q.c < r.c
    \/ q.p = r.p /\ q.c = r.c /\ q.s < r.s
\* the place of node q in document order, counted from 1
Rank(toc, q) == Cardinality({r \in Positions(toc) : Before(r, q)}) + 1
\* the nodes of the table of contents without the file key
Keyless(toc) == {q \in Positions(toc) : "file" \notin DOMAIN NodeAt(toc, q)}
\* the run has visited notebook x
Visited(x) == \E i \in DOMAIN batch.found : batch.found[i] = x
\* the number of errors of one kind reported for x
Reports(kind, x) ==
    Cardinality({i \in DOMAIN batch.errors :
                    batch.errors[i] = [kind |-> kind, at |-> x]})
\* the derived files of notebook x are as they were before the run
Untouched(x) == batch.derived[x] = [k \in Kinds |-> batch.prior]
\* the run is over
Over == batch.phase \in {"done", "halted"}

\* C14: a source whose cells are not a list gets one FormatError, none of
\* its five derived files is written or changed, the run does not end
\* there, and a run that reaches the end has written the doc notebook of
\* every well-formed source.
C14_FormatError ==
    /\ \A x \in DOMAIN batch.disk : batch.disk[x] = "malformed" =>
           /\ Untouched(x)
           /\ Visited(x) => Reports("FormatError", x) = 1
    /\ batch.phase = "halted" =>
           batch.errors[Len(batch.errors)].kind # "FormatError"
    /\ batch.phase = "done" =>
           \A x \in DOMAIN batch.disk :
               batch.disk[x] \in {"plain", "tutorial"} =>
                   batch.derived[x]["doc"] = "new"

\* a finished run over stale derived files whose first notebook is
\* malformed and whose second is a tutorial, written anew
C14_Witness ==
    /\ batch.phase = "done"
    /\ batch.prior = "old"
    /\ Len(batch.found) >= 2
    /\ batch.disk[batch.found[1]] = "malformed"
    /\ Untouched(batch.found[1])
    /\ batch.disk[batch.found[2]] = "tutorial"
    /\ \A k \in Kinds : batch.derived[batch.found[2]][k] = "new"

C16_StructureError ==
    /\ \A i \in DOMAIN batch.errors :
           batch.errors[i].kind = "StructureError" =>
               /\ i = Len(batch.errors)
               /\ batch.phase = "halted"
               /\ batch.exit # 0
               /\ batch.errors[i].at \in Keyless(batch.toc)
               /\ Len(batch.found) = Rank(batch.toc, batch.errors[i].at) - 1
               /\ \A q \in Positions(batch.toc) \ Keyless(batch.toc) :
                      Before(batch.errors[i].at, q) =>
                          Untouched(ParseRef(NodeAt(batch.toc, q).file))
    /\ batch.phase = "done" => Keyless(batch.toc) = {}

\* a run halted at a section without the file key, after its chapter and
\* the section before, with a chapter still to come
C16_Witness ==
    /\ batch.phase = "halted"
    /\ batch.toc = TocSectionNoFile
    /\ Len(batch.found) = 2
    /\ batch.errors[Len(batch.errors)] =
           [kind |-> "StructureError", at |-> [p |-> 1, c |-> 1, s |-> 2]]

\* C17: the exit code of a run is not 0 exactly when it reported a
\* FormatError or a StructureError; NotFoundErrors alone leave it 0.
C17_ExitStatus ==
    Over =>
        (batch.exit # 0 <=>
            \E i \in DOMAIN batch.errors :
                batch.errors[i].kind \in {"FormatError", "StructureError"})

\* a finished run that reported a NotFoundError and then a FormatError,
\* and returned non-zero
C17_Witness ==
    /\ batch.phase = "done"
    /\ Len(batch.errors) = 2
    /\ batch.errors[1].kind = "NotFoundError"
    /\ batch.errors[2].kind = "FormatError"
    /\ batch.exit # 0

C21_CacheMiss ==
    /\ \A k \in Kinds \ cb.cache :
           /\ k \notin cb.merged /\ k \notin cb.open
           /\ files[k].exists =>
                  /\ files[k].cells = out[k]
                  /\ cb.phase # "off" => files[k].mtime < clock
    /\ cb.phase \in {"open", "write"} => ExtOrder[cb.i] \in cb.cache
    /\ cb.phase \in {"read", "open", "write"} => cb.i \in 1..5
    /\ cb.phase = "done" => \A k \in Kinds : cb.names[k] # <<>>

\* a pass that ran to its end over the files of a notebook: one of them
\* had no cache record and kept its cells, another was merged
C21_Witness ==
    /\ cb.phase = "done"
    /\ \E k \in Kinds \ cb.cache :
           files[k].exists /\ Len(files[k].cells) > 0
    /\ cb.merged # {}

\* C25 as stated: the cache merge finds a match for, opens and rewrites
\* the test notebook only.
C25_MergeTestOnly ==
    /\ cb.merged \subseteq {"test"}
    /\ cb.open \subseteq {"test"}
    /\ cb.phase \in {"open", "write"} => ExtOrder[cb.i] = "test"

\* C25 amended: the cache merge is applied to the derived notebook of every
\* type: a pass that returns has rewritten, with the cells they had,
\* exactly the existing derived notebooks that have a matching cache
\* record, and its count is their number.
C25_MergeEveryMatched ==
    /\ cb.merged \subseteq cb.cache
    /\ \A k \in cb.merged : files[k].exists /\ files[k].cells = out[k]
    /\ cb.phase = "done" =>
           /\ cb.merged = {k \in cb.cache : files[k].exists}
           /\ cb.count = Cardinality(cb.merged)

\* a pass that merged the doc notebook and the test notebook
C25_Witness ==
    /\ cb.phase = "done"
    /\ {"doc", "test"} \subseteq cb.merged
    /\ cb.count >= 2

C27_InterruptThenRun ==
    [][/\ cb'.phase = "crashed" =>
              \A k \in Kinds : files'[k].exists => files'[k].cells = out'[k]
       /\ cb.phase = "crashed" /\ RunStep =>
              \A k \in DOMAIN out' :
                  /\ files'[k].exists
                  /\ files'[k].cells = Derive(cells, skip)[k]]_vars

HasAutoNoauto ==
    \E i \in DOMAIN cells : Tagged(i, "auto") /\ Tagged(i, "noauto")

\* C28 as stated: a source with a cell tagged both auto and noauto is
\* rejected: no notebook is derived from it.
C28_AutoNoautoRejected ==
    pc = "done" /\ HasAutoNoauto =>
        DOMAIN out = {} /\ \A k \in Kinds : ~files[k].exists

\* C28 amended: a source with a cell tagged both auto and noauto is
\* derived like any other, and the rules of both tags are applied to the
\* cell: it is in none of the derived notebooks.
C28_AutoNoautoBothApplied ==
    pc = "done" /\ HasAutoNoauto =>
        /\ Produced("doc") /\ files["doc"].exists
        /\ Produced("user") /\ files["user"].exists
        /\ \A i \in DOMAIN cells :
               Tagged(i, "auto") /\ Tagged(i, "noauto") =>
                   \A k \in Kinds : ~Present(k, i)

\* a tutorial with all five notebooks, a cell tagged auto and noauto in
\* none of them, its other cell in some
C28_Witness ==
    /\ pc = "done"
    /\ DOMAIN out = Kinds
    /\ \E i, j \in DOMAIN cells :
          /\ cells[i].tags = {"auto", "noauto"}
          /\ \A k \in Kinds : ~Present(k, i)
          /\ Present("solution", j)

====
